---- MODULE Spec2Model ----
(***************************************************************************)
(* Model of src/blog_production_crewai.py: the four-stage blog production  *)
(* workflow (research, write, SEO-optimise, edit), the meta-data           *)
(* extraction applied to the SEO stage's text, and the HTTP trigger that   *)
(* dispatches the workflow as a background task.                           *)
(*                                                                         *)
(* Texts.  A Python str is modelled as a sequence of symbols.  A symbol is *)
(* either one character (a whitespace character or an ordinary one) or a   *)
(* literal of the source taken whole ("META TITLE:", "Error writing blog   *)
(* content:", ...).  The alphabet holds no fragment of a literal, so every *)
(* text has exactly one spelling and a literal occurs in a text exactly    *)
(* where its symbol does.                                                  *)
(***************************************************************************)
EXTENDS Integers, Sequences, FiniteSets, TLC

VARIABLES
    pc,             \* per run: where the run is
    request,        \* per run: blog_request
    research,       \* per run: local variable research
    blog_content,   \* per run: local variable blog_content
    seo_content,    \* per run: local variable seo_content
    final_content,  \* per run: local variable final_content
    result,         \* per run: structured_result, once returned
    response,       \* per run: what trigger_blog_production answered
    calls,          \* per run: the ChatCompletion.create calls issued, in order
    outcomes,       \* per run: what each of those calls did, in order
    done_at,        \* per run: the two clock readings taken for the result
    interleaved,    \* a stage of one run completed while another run's call was in flight
    now,            \* the wall clock read by datetime.now()
    ticks,          \* seconds elapsed since the initial state
    seo_in,         \* extraction harness: the text given to extract_meta_data
    meta_out,       \* extraction harness: what extract_meta_data returned
    phase           \* extraction harness: "input" or "extracted"

vars == <<pc, request, research, blog_content, seo_content, final_content,
          result, response, calls, outcomes, done_at, interleaved, now, ticks,
          seo_in, meta_out, phase>>

wfvars == <<pc, request, research, blog_content, seo_content, final_content,
            result, response, calls, outcomes, done_at, interleaved, now, ticks>>

exvars == <<seo_in, meta_out, phase>>

-----------------------------------------------------------------------------
(* Bounds *)

\* Longest text given to extract_meta_data in the extraction harness.
MaxLen == 5

\* Seconds the clock may advance.
MaxTicks == 2

-----------------------------------------------------------------------------
(* Symbols *)

NL == "\n"
SP == " "
META_TITLE == "META TITLE:"
META_DESCRIPTION == "META DESCRIPTION:"
OPTIMIZED_CONTENT == "OPTIMIZED CONTENT:"
ERR_RESEARCH == "Error generating research:"
ERR_WRITE == "Error writing blog content:"
ERR_SEO == "Error optimizing for SEO:"
ERR_EDIT == "Error editing and finalizing:"
BLOG_DASH == "BLOG-"

Whitespace == {NL, SP}
Ordinary == {"x", "y"}
Digit == {"0", "1", "2", "3", "4", "5", "6", "7", "8", "9"}

\* The characters of a symbol, each reduced to its class: "c" for a
\* non-whitespace character (one or more of them in a row), "s" for whitespace.
Shape(sym) ==
    CASE sym \in Whitespace -> <<"s">>
      [] sym \in {META_TITLE, META_DESCRIPTION, OPTIMIZED_CONTENT} -> <<"c", "s", "c">>
      [] sym = ERR_RESEARCH -> <<"c", "s", "c", "s", "c">>
      [] sym \in {ERR_WRITE, ERR_SEO, ERR_EDIT} -> <<"c", "s", "c", "s", "c", "s", "c">>
      [] OTHER -> <<"c">>

RECURSIVE Expand(_)
Expand(text) ==
    IF text = <<>> THEN <<>> ELSE Shape(Head(text)) \o Expand(Tail(text))

-----------------------------------------------------------------------------
(* str methods used by the source *)

\* text.split('\n')
RECURSIVE SplitLines(_)
SplitLines(text) ==
    LET brk == {i \in 1..Len(text) : text[i] = NL} IN
    IF brk = {} THEN <<text>>
    ELSE LET i == CHOOSE j \in brk : \A k \in brk : j <= k IN
         <<SubSeq(text, 1, i - 1)>> \o SplitLines(SubSeq(text, i + 1, Len(text)))

\* line.startswith(marker)
StartsWith(line, marker) == Len(line) >= 1 /\ line[1] = marker

\* line.replace(marker, ""): every occurrence of marker is removed
Replace(line, marker) == SelectSeq(line, LAMBDA s : s # marker)

\* text.strip()
Strip(text) ==
    LET keep == {i \in 1..Len(text) : text[i] \notin Whitespace} IN
    IF keep = {} THEN <<>>
    ELSE SubSeq(text, CHOOSE i \in keep : \A k \in keep : i <= k,
                      CHOOSE i \in keep : \A k \in keep : i >= k)

\* chars.split() on a sequence of character classes: the maximal runs of
\* non-whitespace, in order (runs of whitespace separate, none at the ends
\* yields an empty string)
RECURSIVE SplitWords(_, _)
SplitWords(chars, word) ==
    IF chars = <<>> THEN (IF word = <<>> THEN <<>> ELSE <<word>>)
    ELSE IF Head(chars) = "s"
         THEN (IF word = <<>> THEN <<>> ELSE <<word>>) \o SplitWords(Tail(chars), <<>>)
         ELSE SplitWords(Tail(chars), Append(word, Head(chars)))

\* chars.split(' ')-like splitting: every whitespace character separates, so
\* adjacent whitespace yields empty strings
RECURSIVE SplitEach(_, _)
SplitEach(chars, word) ==
    IF chars = <<>> THEN <<word>>
    ELSE IF Head(chars) = "s"
         THEN <<word>> \o SplitEach(Tail(chars), <<>>)
         ELSE SplitEach(Tail(chars), Append(word, Head(chars)))

WordCountSplitEach(text) == Len(SplitEach(Expand(text), <<>>))

\* len(final_content.split())
WordCount(text) == Len(SplitWords(Expand(text), <<>>))

-----------------------------------------------------------------------------
(* extract_meta_data *)

\* A first-match-wins assignment: a field once set is kept.
AssignFieldFirstWins(old, line, marker) ==
    IF old = <<>> THEN Strip(Replace(line, marker)) ELSE old

\* meta_title = line.replace("META TITLE:", "").strip()   (and the same for
\* the description); old is the field's value before the assignment
AssignField(old, line, marker) == Strip(Replace(line, marker))

RECURSIVE ScanLines(_, _, _)
ScanLines(lines, meta_title, meta_description) ==
    IF lines = <<>> THEN [meta_title |-> meta_title, meta_description |-> meta_description]
    ELSE LET line == Head(lines) IN
         IF StartsWith(line, META_TITLE)
         THEN ScanLines(Tail(lines), AssignField(meta_title, line, META_TITLE),
                        meta_description)
         ELSE IF StartsWith(line, META_DESCRIPTION)
         THEN ScanLines(Tail(lines), meta_title,
                        AssignField(meta_description, line, META_DESCRIPTION))
         ELSE ScanLines(Tail(lines), meta_title, meta_description)

extract_meta_data(text) == ScanLines(SplitLines(text), <<>>, <<>>)

-----------------------------------------------------------------------------
(* Requests *)

Runs == {1, 2}

\* task_id: str = None  -- an optional string
NoneStr == [present |-> FALSE, value |-> <<>>]
SomeStr(text) == [present |-> TRUE, value |-> text]

\* BlogContentRequest; the fields no claim distinguishes have one value each
BlogContentRequest(topic, tid) ==
    [blog_topic |-> topic,
     primary_keywords |-> <<"x", SP, "y">>,
     target_audience |-> <<"y">>,
     call_to_action |-> <<"x">>,
     desired_word_count |-> 4000,
     requester_email |-> <<"x">>,
     task_id |-> tid,
     publish_date |-> NoneStr]

Topics == {<<>>, <<"x", SP, "y">>}
TaskIds == {NoneStr, SomeStr(<<>>), SomeStr(<<"x">>)}
Requests == {BlogContentRequest(t, i) : t \in Topics, i \in TaskIds}

\* The request of a run that has not been given one.
NoRequest == BlogContentRequest(<<>>, NoneStr)

-----------------------------------------------------------------------------
(* The model service *)

\* Response texts the model service may return (message.content).
SeoShaped ==
    <<META_TITLE, SP, "x", NL, META_DESCRIPTION, SP, "y", NL,
      OPTIMIZED_CONTENT, NL, "x", SP, "y">>
Responses == {<<"x">>, SeoShaped, <<SP, "x", SP, SP, "y", NL>>, <<>>}

\* str(e) of an exception raised by ChatCompletion.create
Causes == {<<"x", SP, "y">>}

\* str(e) of the exception raised by response.choices[0].message.content on
\* a response that lacks the choice, the message or the content
MalformedCause == <<"y">>

\* What one ChatCompletion.create call does: returns a response carrying a
\* text, raises, or returns a response the stage cannot read the text from.
\* (A response whose content is null is not among the outcomes: the service
\* sends null content only with a function call, and no call here offers
\* functions.)
Outcomes ==
    [kind : {"ok"}, text : Responses] \cup [kind : {"raise"}, text : Causes]
        \cup {[kind |-> "malformed", text |-> MalformedCause]}

\* What a stage function hands back to the workflow.
Return(text) == [raised |-> FALSE, text |-> text]
Raise(text) == [raised |-> TRUE, text |-> text]

\* A stage whose except clause is missing: the exception leaves the stage.
StageUncaught(o, prefix) ==
    IF o.kind = "ok" THEN Return(o.text) ELSE Raise(o.text)

\* A stage whose except clause returns the bare cause, without the prefix.
StageBareCause(o, prefix) == Return(o.text)

\* The try/except of a stage function:
\*     return response.choices[0].message.content
\* except Exception as e: return f"<prefix> {str(e)}"
Stage(o, prefix) ==
    IF o.kind = "ok" THEN Return(o.text) ELSE Return(<<prefix, SP>> \o o.text)

generate_research_returns(o) == Stage(o, ERR_RESEARCH)

write_blog_content_uncaught(o) == StageUncaught(o, ERR_WRITE)

write_blog_content_returns(o) == Stage(o, ERR_WRITE)

optimize_for_seo_returns(o) == Stage(o, ERR_SEO)

edit_and_finalize_returns(o) == Stage(o, ERR_EDIT)

-----------------------------------------------------------------------------
(* Prompts: the request fields and the upstream text each f-string embeds *)

Prompt(stage, tokens, topic, audience, keywords, words, cta, content) ==
    [stage |-> stage, max_tokens |-> tokens, blog_topic |-> topic,
     target_audience |-> audience, primary_keywords |-> keywords,
     desired_word_count |-> words, call_to_action |-> cta, content |-> content]

research_prompt(req) ==
    Prompt("research", 4000, req.blog_topic, req.target_audience,
           req.primary_keywords, req.desired_word_count, <<>>, <<>>)

write_prompt(req, text) ==
    Prompt("write", 8000, req.blog_topic, req.target_audience,
           req.primary_keywords, req.desired_word_count, req.call_to_action, text)

seo_prompt(req, text) ==
    Prompt("seo", 8000, <<>>, req.target_audience, req.primary_keywords, 0, <<>>, text)

edit_prompt(req, text) ==
    Prompt("edit", 8000, <<>>, req.target_audience, <<>>, req.desired_word_count,
           <<>>, text)

\* A call that is issued again: the log gains the prompt twice.
IssueCallTwice(log, prompt) == Append(Append(log, prompt), prompt)

\* openai.ChatCompletion.create(...): one outbound request
IssueCall(log, prompt) == Append(log, prompt)

-----------------------------------------------------------------------------
(* The clock *)

DigitSym == <<"0", "1", "2", "3", "4", "5", "6", "7", "8", "9">>

\* n as w decimal digits, zero-padded (%Y, %m, %d, %H, %M, %S)
RECURSIVE Pad(_, _)
Pad(n, w) ==
    IF w = 0 THEN <<>> ELSE Pad(n \div 10, w - 1) \o <<DigitSym[(n % 10) + 1]>>

\* clock.strftime('%Y%m%d%H%M%S')
strftime(clock) ==
    Pad(clock.year, 4) \o Pad(clock.month, 2) \o Pad(clock.day, 2)
        \o Pad(clock.hour, 2) \o Pad(clock.minute, 2) \o Pad(clock.second, 2)

\* clock.isoformat(), the clock being read to the second
isoformat(clock) ==
    Pad(clock.year, 4) \o <<"-">> \o Pad(clock.month, 2) \o <<"-">> \o Pad(clock.day, 2)
        \o <<"T">> \o Pad(clock.hour, 2) \o <<":">> \o Pad(clock.minute, 2)
        \o <<":">> \o Pad(clock.second, 2)

StartInstants ==
    {[year |-> 2025, month |-> 1, day |-> 5, hour |-> 9, minute |-> 59, second |-> 58]}

\* One second later (within the day).
NextSecond(clock) ==
    IF clock.second < 59 THEN [clock EXCEPT !.second = @ + 1]
    ELSE IF clock.minute < 59 THEN [clock EXCEPT !.second = 0, !.minute = @ + 1]
    ELSE [clock EXCEPT !.second = 0, !.minute = 0, !.hour = @ + 1]

-----------------------------------------------------------------------------
(* The result record *)

\* An id kept whenever the request carries one, the empty string included.
TaskIdIfPresent(tid, clock) ==
    IF tid.present THEN tid.value ELSE <<BLOG_DASH>> \o strftime(clock)

\* blog_request.task_id or f"BLOG-{datetime.now().strftime('%Y%m%d%H%M%S')}"
TaskIdOr(tid, clock) ==
    IF tid.present /\ tid.value # <<>> THEN tid.value
    ELSE <<BLOG_DASH>> \o strftime(clock)

\* clock is the reading taken for the task_id, later the one taken for the
\* completion_time
structured_result(req, res, seo, fin, clock, later) ==
    LET meta == extract_meta_data(seo) IN
    [task_id |-> TaskIdOr(req.task_id, clock),
     blog_topic |-> req.blog_topic,
     target_audience |-> req.target_audience,
     primary_keywords |-> req.primary_keywords,
     completion_time |-> isoformat(later),
     research_summary |-> res,
     blog_draft |-> fin,
     meta_title |-> meta.meta_title,
     meta_description |-> meta.meta_description,
     word_count |-> WordCount(fin)]

NoResult == [returned |-> FALSE]
Returned(value) == [returned |-> TRUE, value |-> value]

NoResponse == [sent |-> FALSE]

-----------------------------------------------------------------------------
(* Initial states *)

InitWorkflow ==
    /\ pc = [r \in Runs |-> "idle"]
    /\ request = [r \in Runs |-> NoRequest]
    /\ research = [r \in Runs |-> <<>>]
    /\ blog_content = [r \in Runs |-> <<>>]
    /\ seo_content = [r \in Runs |-> <<>>]
    /\ final_content = [r \in Runs |-> <<>>]
    /\ result = [r \in Runs |-> NoResult]
    /\ response = [r \in Runs |-> NoResponse]
    /\ calls = [r \in Runs |-> <<>>]
    /\ outcomes = [r \in Runs |-> <<>>]
    /\ now \in StartInstants
    /\ done_at = [r \in Runs |-> <<now, now>>]
    /\ interleaved = FALSE
    /\ ticks = 0

NoMeta == [meta_title |-> <<>>, meta_description |-> <<>>]

Init ==
    /\ InitWorkflow
    /\ seo_in = <<>>
    /\ meta_out = NoMeta
    /\ phase = "input"

-----------------------------------------------------------------------------
(* The workflow *)

InFlight == {"research", "write", "seo", "edit"}

\* Some other run has a model call in flight.
Overlaps(r) == \E q \in Runs \ {r} : pc[q] \in InFlight

\* A local variable kept in one module-level slot shared by all runs.
LocalShared(f, r) == f[1]

\* A local variable (or the blog_request parameter) of run r's invocation
Local(f, r) == f[r]

\* A validation that lets every request through.
TopicMissingNever(req) == FALSE

\* if not blog_request.blog_topic
TopicMissing(req) == req.blog_topic = <<>>

\* The edit prompt given only what follows the OPTIMIZED CONTENT: marker.
EditInputBody(seo) ==
    LET at == {i \in 1..Len(seo) : seo[i] = OPTIMIZED_CONTENT} IN
    IF at = {} THEN seo
    ELSE SubSeq(seo, (CHOOSE i \in at : \A k \in at : i <= k) + 1, Len(seo))

\* What edit_and_finalize(blog_request, seo_content) is passed as seo_content
EditInput(seo) == seo

\* Entry into run_blog_production_workflow up to its first model call (the
\* research prompt is rendered and the call issued).
Enter(r, req) ==
    /\ calls' = [calls EXCEPT ![r] = IssueCall(@, research_prompt(req))]
    /\ pc' = [pc EXCEPT ![r] = "research"]

\* except Exception as e: raise e   -- the workflow ends with the exception
Fail(r) ==
    /\ pc' = [pc EXCEPT ![r] = "failed"]
    /\ UNCHANGED <<research, blog_content, seo_content, final_content, result,
                   calls, done_at>>

\* POST /trigger-blog-production
trigger_blog_production(r, req) ==
    /\ pc[r] = "idle"
    /\ request' = [request EXCEPT ![r] = req]
    /\ IF TopicMissing(req)
       THEN /\ pc' = [pc EXCEPT ![r] = "rejected"]
            /\ response' = [response EXCEPT ![r] = [sent |-> TRUE, code |-> 400]]
       ELSE /\ pc' = [pc EXCEPT ![r] = "queued"]
            /\ response' = [response EXCEPT ![r] =
                   [sent |-> TRUE, code |-> 200, status |-> "processing",
                    task_id |-> TaskIdOr(req.task_id, now)]]
    /\ UNCHANGED <<research, blog_content, seo_content, final_content, result, calls,
                   outcomes, done_at, interleaved, now, ticks, exvars>>

\* The background task queued by the trigger starts the workflow.
RunBackgroundTask(r) ==
    /\ pc[r] = "queued"
    /\ Enter(r, Local(request, r))
    /\ UNCHANGED <<request, research, blog_content, seo_content, final_content,
                   result, response, outcomes, done_at, interleaved, now, ticks, exvars>>

\* run_blog_production_workflow(blog_request) awaited by a caller directly:
\* the coroutine is a module-level function and checks nothing on entry
run_blog_production_workflow(r, req) ==
    /\ pc[r] = "idle"
    /\ request' = [request EXCEPT ![r] = req]
    /\ Enter(r, req)
    /\ UNCHANGED <<research, blog_content, seo_content, final_content, result,
                   response, outcomes, done_at, interleaved, now, ticks, exvars>>

\* The research call ends; the workflow goes on to issue the writing call.
generate_research(r, o) ==
    /\ pc[r] = "research"
    /\ outcomes' = [outcomes EXCEPT ![r] = Append(@, o)]
    /\ interleaved' = (interleaved \/ Overlaps(r))
    /\ LET ret == generate_research_returns(o) IN
       IF ret.raised THEN Fail(r)
       ELSE /\ research' = [research EXCEPT ![r] = ret.text]
            /\ calls' = [calls EXCEPT ![r] =
                   IssueCall(@, write_prompt(Local(request, r), ret.text))]
            /\ pc' = [pc EXCEPT ![r] = "write"]
            /\ UNCHANGED <<blog_content, seo_content, final_content, result, done_at>>
    /\ UNCHANGED <<request, response, now, ticks, exvars>>

\* The writing call ends; the workflow goes on to issue the SEO call.
write_blog_content(r, o) ==
    /\ pc[r] = "write"
    /\ outcomes' = [outcomes EXCEPT ![r] = Append(@, o)]
    /\ interleaved' = (interleaved \/ Overlaps(r))
    /\ LET ret == write_blog_content_returns(o) IN
       IF ret.raised THEN Fail(r)
       ELSE /\ blog_content' = [blog_content EXCEPT ![r] = ret.text]
            /\ calls' = [calls EXCEPT ![r] =
                   IssueCall(@, seo_prompt(Local(request, r), ret.text))]
            /\ pc' = [pc EXCEPT ![r] = "seo"]
            /\ UNCHANGED <<research, seo_content, final_content, result, done_at>>
    /\ UNCHANGED <<request, response, now, ticks, exvars>>

\* The SEO call ends; the workflow goes on to issue the editing call.
optimize_for_seo(r, o) ==
    /\ pc[r] = "seo"
    /\ outcomes' = [outcomes EXCEPT ![r] = Append(@, o)]
    /\ interleaved' = (interleaved \/ Overlaps(r))
    /\ LET ret == optimize_for_seo_returns(o) IN
       IF ret.raised THEN Fail(r)
       ELSE /\ seo_content' = [seo_content EXCEPT ![r] = ret.text]
            /\ calls' = [calls EXCEPT ![r] =
                   IssueCall(@, edit_prompt(Local(request, r), EditInput(ret.text)))]
            /\ pc' = [pc EXCEPT ![r] = "edit"]
            /\ UNCHANGED <<research, blog_content, final_content, result, done_at>>
    /\ UNCHANGED <<request, response, now, ticks, exvars>>

\* The editing call ends; the workflow extracts the meta data, builds
\* structured_result and returns it.  The clock is read twice while the
\* record is built, and a second may pass between the two readings.
edit_and_finalize(r, o) ==
    /\ pc[r] = "edit"
    /\ outcomes' = [outcomes EXCEPT ![r] = Append(@, o)]
    /\ interleaved' = (interleaved \/ Overlaps(r))
    /\ LET ret == edit_and_finalize_returns(o) IN
       IF ret.raised THEN Fail(r) /\ UNCHANGED <<now, ticks>>
       ELSE \E passed \in {0, 1} :
            /\ ticks + passed <= MaxTicks
            /\ ticks' = ticks + passed
            /\ now' = (IF passed = 1 THEN NextSecond(now) ELSE now)
            /\ final_content' = [final_content EXCEPT ![r] = ret.text]
            /\ result' = [result EXCEPT ![r] =
                   Returned(structured_result(Local(request, r), Local(research, r),
                                              Local(seo_content, r), ret.text,
                                              now, now'))]
            /\ done_at' = [done_at EXCEPT ![r] = <<now, now'>>]
            /\ pc' = [pc EXCEPT ![r] = "done"]
            /\ UNCHANGED <<research, blog_content, seo_content, calls>>
    /\ UNCHANGED <<request, response, exvars>>

\* A second passes.
Tick ==
    /\ ticks < MaxTicks
    /\ ticks' = ticks + 1
    /\ now' = NextSecond(now)
    /\ UNCHANGED <<pc, request, research, blog_content, seo_content,
                   final_content, result, response, calls, outcomes, done_at,
                   interleaved, exvars>>

-----------------------------------------------------------------------------
(* Specification of one run *)

SoloRuns == {1}

Next ==
    \/ Tick
    \/ \E r \in SoloRuns, req \in Requests : trigger_blog_production(r, req)
    \/ \E r \in SoloRuns : RunBackgroundTask(r)
    \/ \E r \in SoloRuns, req \in Requests : run_blog_production_workflow(r, req)
    \/ \E r \in SoloRuns, o \in Outcomes : generate_research(r, o)
    \/ \E r \in SoloRuns, o \in Outcomes : write_blog_content(r, o)
    \/ \E r \in SoloRuns, o \in Outcomes : optimize_for_seo(r, o)
    \/ \E r \in SoloRuns, o \in Outcomes : edit_and_finalize(r, o)

Spec == Init /\ [][Next]_vars

-----------------------------------------------------------------------------
(* Specification of concurrent runs, with fewer inputs per run *)

\* Each run is given a request of its own.
ConcRequests(r) ==
    IF r = 1 THEN {BlogContentRequest(<<"x", SP, "y">>, NoneStr)}
    ELSE {BlogContentRequest(<<"y">>, SomeStr(<<"x">>))}

ConcOutcomes ==
    {[kind |-> "ok", text |-> SeoShaped], [kind |-> "raise", text |-> <<"x", SP, "y">>]}

NextConc ==
    \/ Tick
    \/ \E r \in Runs : \E req \in ConcRequests(r) : trigger_blog_production(r, req)
    \/ \E r \in Runs : RunBackgroundTask(r)
    \/ \E r \in Runs : \E req \in ConcRequests(r) : run_blog_production_workflow(r, req)
    \/ \E r \in Runs, o \in ConcOutcomes : generate_research(r, o)
    \/ \E r \in Runs, o \in ConcOutcomes : write_blog_content(r, o)
    \/ \E r \in Runs, o \in ConcOutcomes : optimize_for_seo(r, o)
    \/ \E r \in Runs, o \in ConcOutcomes : edit_and_finalize(r, o)

SpecConc == Init /\ [][NextConc]_vars

-----------------------------------------------------------------------------
(* Specification of extract_meta_data applied to every short text *)

Alphabet == {META_TITLE, META_DESCRIPTION, NL, SP} \cup Ordinary

Texts == UNION {[1..n -> Alphabet] : n \in 0..MaxLen}

InitExtract ==
    /\ InitWorkflow
    /\ seo_in \in Texts
    /\ meta_out = NoMeta
    /\ phase = "input"

Extract ==
    /\ phase = "input"
    /\ meta_out' = extract_meta_data(seo_in)
    /\ phase' = "extracted"
    /\ UNCHANGED <<seo_in, wfvars>>

NextExtract == Extract

SpecExtract == InitExtract /\ [][NextExtract]_vars

-----------------------------------------------------------------------------
(* Vocabulary of the claims *)

Symbols ==
    Alphabet \cup Digit
        \cup {OPTIMIZED_CONTENT, ERR_RESEARCH, ERR_WRITE, ERR_SEO, ERR_EDIT,
              BLOG_DASH, "-", "T", ":"}

IsText(t) == t \in Seq(Symbols)

\* sub occurs in text as a run of consecutive symbols
Occurs(sub, text) ==
    \E i \in 0..(Len(text) - Len(sub)) : SubSeq(text, i + 1, i + Len(sub)) = sub

\* The k-th model call of run r has ended in an error.
Failed(r, k) == outcomes[r][k].kind # "ok"

\* The text a stage hands on after a call that returned the response text t
\* or failed with cause t.
Handed(o, prefix) == IF o.kind = "ok" THEN o.text ELSE <<prefix, SP>> \o o.text

\* The number of maximal runs of non-whitespace characters of a text.
TokenCount(text) ==
    LET e == Expand(text) IN
    Cardinality({i \in 1..Len(e) : e[i] = "c" /\ (i = 1 \/ e[i - 1] = "s")})

\* The lines of a text that begin with a marker, by position.
MarkedLines(text, marker) ==
    {i \in 1..Len(SplitLines(text)) : StartsWith(SplitLines(text)[i], marker)}

LastMarked(text, marker) ==
    SplitLines(text)[CHOOSE i \in MarkedLines(text, marker) :
                         \A k \in MarkedLines(text, marker) : i >= k]

-----------------------------------------------------------------------------
(* C1 *)

-----------------------------------------------------------------------------
(* C2 *)

\* The writing call of run r raised and its other three calls returned texts.
DraftOnlyRaised(r) ==
    /\ Len(outcomes[r]) = 4
    /\ outcomes[r][2].kind = "raise"
    /\ \A k \in {1, 3, 4} : outcomes[r][k].kind = "ok"

\* "Error writing blog content: <cause>" of run r
DraftSentinel(r) == <<ERR_WRITE, SP>> \o outcomes[r][2].text

\* C2 as stated: when only the writing call raises (the request having a
\* topic), the run is done, the inputs of both the SEO stage and the editing
\* stage carry the writing stage's sentinel text, and so does the blog_draft
\* of the result.
C2_AsStated ==
    \A r \in Runs :
        (DraftOnlyRaised(r) /\ request[r].blog_topic # <<>>) =>
            /\ pc[r] = "done"
            /\ Occurs(DraftSentinel(r), calls[r][3].content)
            /\ Occurs(DraftSentinel(r), calls[r][4].content)
            /\ Occurs(DraftSentinel(r), result[r].value.blog_draft)

\* C2 amended: when only the writing call raises, the run is done and the SEO
\* stage's input is exactly the writing stage's sentinel text; the editing
\* stage's input is the text the SEO call returned and the blog_draft of the
\* result is the text the editing call returned, whatever those texts are.
C2_DraftFailureContained ==
    \A r \in Runs :
        DraftOnlyRaised(r) =>
            /\ pc[r] = "done"
            /\ result[r].returned
            /\ blog_content[r] = DraftSentinel(r)
            /\ calls[r][3].stage = "seo"
            /\ calls[r][3].content = DraftSentinel(r)
            /\ calls[r][4].stage = "edit"
            /\ calls[r][4].content = outcomes[r][3].text
            /\ result[r].value.blog_draft = outcomes[r][4].text

\* Only the writing call raised, the run is done, and neither the editing
\* stage's input nor the blog_draft shows the sentinel.
C2_Witness ==
    /\ DraftOnlyRaised(1)
    /\ pc[1] = "done"
    /\ calls[1][3].content = DraftSentinel(1)
    /\ ~Occurs(<<ERR_WRITE>>, calls[1][4].content)
    /\ ~Occurs(<<ERR_WRITE>>, result[1].value.blog_draft)

-----------------------------------------------------------------------------
(* C3 *)

\* C3 as stated: a request with an empty topic never gets a stage run by
\* run_blog_production_workflow: no model call is made for it and no result
\* record is produced.
C3_AsStated ==
    \A r \in Runs :
        (pc[r] # "idle" /\ request[r].blog_topic = <<>>) =>
            (calls[r] = <<>> /\ ~result[r].returned)

\* C3 amended: trigger_blog_production answers a request with 400 exactly
\* when its topic is empty, and then nothing is dispatched: no model call is
\* made and no result record is produced.  run_blog_production_workflow makes
\* no such check: invoked directly with an empty topic it runs all four
\* stages and returns a result.
C3_TriggerRejectsEmptyTopic ==
    \A r \in Runs :
        /\ response[r].sent =>
               /\ (response[r].code = 400) <=> (request[r].blog_topic = <<>>)
               /\ response[r].code = 400 =>
                      (pc[r] = "rejected" /\ calls[r] = <<>> /\ ~result[r].returned)
        /\ (pc[r] \notin {"idle", "rejected"} /\ request[r].blog_topic = <<>>) =>
               /\ ~response[r].sent
               /\ calls[r] # <<>>
               /\ Len(outcomes[r]) = 4 => result[r].returned

\* The trigger has rejected a request with an empty topic.
C3_Witness ==
    /\ pc[1] = "rejected"
    /\ request[1].blog_topic = <<>>
    /\ response[1].sent
    /\ response[1].code = 400
    /\ calls[1] = <<>>

-----------------------------------------------------------------------------
(* C4 *)

StageOrder == <<"research", "write", "seo", "edit">>

\* C4: the model calls of a run are issued in the order research, write, seo,
\* edit, each once; a call is issued only when every earlier call has ended,
\* so at most one is in flight; a run in flight waits on the call of its
\* stage; a run that is done has made exactly four calls, failed or not.
C4_FourCallsInOrder ==
    \A r \in Runs :
        /\ Len(calls[r]) <= 4
        /\ \A k \in 1..Len(calls[r]) : calls[r][k].stage = StageOrder[k]
        /\ Len(outcomes[r]) <= Len(calls[r])
        /\ Len(calls[r]) <= Len(outcomes[r]) + 1
        /\ pc[r] \in InFlight =>
               /\ Len(calls[r]) = Len(outcomes[r]) + 1
               /\ calls[r][Len(calls[r])].stage = pc[r]
        /\ pc[r] = "done" => (Len(calls[r]) = 4 /\ Len(outcomes[r]) = 4)
        /\ pc[r] \in {"idle", "queued", "rejected"} => calls[r] = <<>>

\* A run is done with four calls made although its first and third failed.
C4_Witness ==
    /\ pc[1] = "done"
    /\ Len(calls[1]) = 4
    /\ Failed(1, 1)
    /\ Failed(1, 3)
    /\ ~Failed(1, 2)

-----------------------------------------------------------------------------
(* C5 *)

\* C5 as stated: when the SEO stage's text holds the OPTIMIZED CONTENT:
\* marker (the request having a topic), the editing stage is given the text
\* that follows the marker.
C5_AsStated ==
    \A r \in Runs :
        (/\ Len(calls[r]) = 4
         /\ request[r].blog_topic # <<>>
         /\ Occurs(<<OPTIMIZED_CONTENT>>, seo_content[r])) =>
            calls[r][4].content = EditInputBody(seo_content[r])

\* C5 amended: the editing stage is given the SEO stage's whole text, the
\* marker lines included: the text the SEO call returned, or the SEO stage's
\* sentinel text when that call failed.
C5_EditGetsWholeSeoText ==
    \A r \in Runs :
        Len(calls[r]) = 4 =>
            /\ calls[r][4].stage = "edit"
            /\ calls[r][4].content = seo_content[r]
            /\ seo_content[r] = Handed(outcomes[r][3], ERR_SEO)

\* The editing call was issued with the marker lines in its input.
C5_Witness ==
    /\ Len(calls[1]) = 4
    /\ seo_content[1] = SeoShaped
    /\ StartsWith(calls[1][4].content, META_TITLE)
    /\ Occurs(<<OPTIMIZED_CONTENT>>, calls[1][4].content)

-----------------------------------------------------------------------------
(* C6 *)

\* The rest of a line after its leading marker, trimmed.
Remainder(line) == Strip(Tail(line))

\* C6 as stated: the title is the remainder, trimmed, of the line it is
\* taken from after that line's leading META TITLE: prefix, the text after
\* the prefix kept as it is; likewise the description.
C6_AsStated ==
    phase = "extracted" =>
        /\ MarkedLines(seo_in, META_TITLE) # {} =>
               meta_out.meta_title = Remainder(LastMarked(seo_in, META_TITLE))
        /\ MarkedLines(seo_in, META_DESCRIPTION) # {} =>
               meta_out.meta_description =
                   Remainder(LastMarked(seo_in, META_DESCRIPTION))

-----------------------------------------------------------------------------
(* C7 *)

\* What the source makes of a marked line: the marker removed wherever it
\* occurs in the line, the rest trimmed.
FieldOf(line, marker) == Strip(SelectSeq(line, LAMBDA s : s # marker))

\* C7: each field comes from the last line that begins with its prefix and
\* is empty when no line does; a text without marker lines yields two empty
\* fields.
C7_LastMarkedLineWins ==
    phase = "extracted" =>
        /\ meta_out.meta_title =
               IF MarkedLines(seo_in, META_TITLE) = {} THEN <<>>
               ELSE FieldOf(LastMarked(seo_in, META_TITLE), META_TITLE)
        /\ meta_out.meta_description =
               IF MarkedLines(seo_in, META_DESCRIPTION) = {} THEN <<>>
               ELSE FieldOf(LastMarked(seo_in, META_DESCRIPTION), META_DESCRIPTION)

\* Two title lines with different values: the second is returned, and the
\* description, having no line, is empty.
C7_Witness ==
    /\ phase = "extracted"
    /\ seo_in = <<META_TITLE, "x", NL, META_TITLE, "y">>
    /\ meta_out.meta_title = <<"y">>
    /\ meta_out.meta_description = <<>>

-----------------------------------------------------------------------------
(* C8 *)

\* C8: a returned result holds texts for research_summary, blog_draft,
\* meta_title and meta_description; blog_draft is the editing stage's text
\* (its sentinel when the call failed) and word_count is the number of
\* whitespace-separated tokens of blog_draft.
C8_ResultFields ==
    \A r \in Runs :
        result[r].returned =>
            /\ IsText(result[r].value.research_summary)
            /\ IsText(result[r].value.blog_draft)
            /\ IsText(result[r].value.meta_title)
            /\ IsText(result[r].value.meta_description)
            /\ result[r].value.blog_draft = Handed(outcomes[r][4], ERR_EDIT)
            /\ result[r].value.word_count = TokenCount(result[r].value.blog_draft)

\* A result whose blog_draft is the editing stage's sentinel
\* "Error editing and finalizing: x y", counted as six words.
C8_Witness ==
    /\ result[1].returned
    /\ request[1].blog_topic # <<>>
    /\ outcomes[1][4].kind = "raise"
    /\ result[1].value.blog_draft = <<ERR_EDIT, SP, "x", SP, "y">>
    /\ result[1].value.word_count = 6

-----------------------------------------------------------------------------
(* C9 *)

\* BLOG- followed by fourteen digits
IsSynthesized(id) ==
    /\ Len(id) = 15
    /\ id[1] = BLOG_DASH
    /\ \A i \in 2..15 : id[i] \in Digit

\* C9 as stated: whenever the request (one with a topic) supplies a task_id,
\* whatever string it is, the result's task_id is that string; the id is
\* synthesized only when the request supplies none.
C9_AsStated ==
    \A r \in Runs :
        (result[r].returned /\ request[r].blog_topic # <<>>) =>
            IF request[r].task_id.present
            THEN result[r].value.task_id = request[r].task_id.value
            ELSE IsSynthesized(result[r].value.task_id)

\* The number a run of decimal digits spells.
RECURSIVE Number(_)
Number(digits) ==
    IF digits = <<>> THEN 0
    ELSE 10 * Number(SubSeq(digits, 1, Len(digits) - 1))
             + (CHOOSE d \in 0..9 : DigitSym[d + 1] = digits[Len(digits)])

\* The fourteen digits of id spell the clock reading: year, month, day,
\* hour, minute, second.
Spells(id, clock) ==
    /\ Number(SubSeq(id, 2, 5)) = clock.year
    /\ Number(SubSeq(id, 6, 7)) = clock.month
    /\ Number(SubSeq(id, 8, 9)) = clock.day
    /\ Number(SubSeq(id, 10, 11)) = clock.hour
    /\ Number(SubSeq(id, 12, 13)) = clock.minute
    /\ Number(SubSeq(id, 14, 15)) = clock.second

\* C9 amended: the result's task_id is the request's task_id whenever the
\* request supplies a non-empty one; when the request supplies none, or
\* supplies the empty string, it is BLOG- followed by fourteen digits, which
\* spell the clock reading taken when the result was built.
C9_TaskId ==
    \A r \in Runs :
        result[r].returned =>
            IF request[r].task_id.present /\ request[r].task_id.value # <<>>
            THEN result[r].value.task_id = request[r].task_id.value
            ELSE /\ IsSynthesized(result[r].value.task_id)
                 /\ Spells(result[r].value.task_id, done_at[r][1])

\* A request that supplied the empty string got a synthesized id, built
\* after the clock had passed the hour.
C9_Witness ==
    /\ result[1].returned
    /\ request[1].task_id.present
    /\ request[1].task_id.value = <<>>
    /\ result[1].value.task_id =
           <<BLOG_DASH, "2", "0", "2", "5", "0", "1", "0", "5",
             "1", "0", "0", "0", "0", "0">>

-----------------------------------------------------------------------------
(* C10 *)

\* The text stage k of a run hands on, from the outcomes of its calls alone.
SoloText(outs, k) ==
    Handed(outs[k], CASE k = 1 -> ERR_RESEARCH [] k = 2 -> ERR_WRITE
                      [] k = 3 -> ERR_SEO [] OTHER -> ERR_EDIT)

\* The k-th call of a run executed alone on req with the outcomes outs.
SoloCall(req, outs, k) ==
    CASE k = 1 -> research_prompt(req)
      [] k = 2 -> write_prompt(req, SoloText(outs, 1))
      [] k = 3 -> seo_prompt(req, SoloText(outs, 2))
      [] OTHER -> edit_prompt(req, SoloText(outs, 3))

\* The result of a run executed alone on req with the outcomes outs, the
\* clock reading clocks[1] and then clocks[2] while the record is built.
SoloResult(req, outs, clocks) ==
    structured_result(req, SoloText(outs, 1), SoloText(outs, 3), SoloText(outs, 4),
                      clocks[1], clocks[2])

\* C10: in every interleaving of the runs, each call a run issues and the
\* result it returns are those of the same run executed alone on its request
\* with the same model outcomes.
C10_RunsIsolated ==
    \A r \in Runs :
        /\ \A k \in 1..Len(calls[r]) :
               calls[r][k] = SoloCall(request[r], outcomes[r], k)
        /\ pc[r] = "done" =>
               /\ result[r].returned
               /\ result[r].value = SoloResult(request[r], outcomes[r], done_at[r])

\* Both runs are done, their stages interleaved, with different requests
\* and different model outcomes.
C10_Witness ==
    /\ interleaved
    /\ pc[1] = "done"
    /\ pc[2] = "done"
    /\ request[1] # request[2]
    /\ outcomes[1][1].kind = "ok"
    /\ outcomes[2][1].kind = "raise"
    /\ outcomes[1][3].kind = "raise"
    /\ outcomes[2][3].kind = "ok"
    /\ result[1].value.research_summary # result[2].value.research_summary

-----------------------------------------------------------------------------
(* C11 *)

\* C11 as stated: the task_id that trigger_blog_production answered with is
\* the task_id of the result the dispatched run returns, also when the
\* request carries no task_id and the id is made from the clock.
C11_AsStated ==
    \A r \in Runs :
        (response[r].sent /\ response[r].code = 200 /\ result[r].returned) =>
            response[r].task_id = result[r].value.task_id

====
